---- MODULE Spec2Model ----
(***************************************************************************)
(* Model of the ABank marketing crew: the three workflows that             *)
(* crew.py wires (task lists, context lists, sequential process) and the   *)
(* run_*_workflow functions of main.py that build a crew, kick it off and  *)
(* turn the outcome into a result map.                                     *)
(*                                                                         *)
(* The task loop itself is the sequential process of the orchestration     *)
(* framework that crew.py selects with process=Process.sequential: tasks   *)
(* are taken one at a time in the order of the crew's task list, each      *)
(* receives the outputs of the tasks in its context list, the output of    *)
(* the last task is what kickoff returns, and an exception raised by an    *)
(* executor leaves kickoff and reaches the caller's except clause.         *)
(***************************************************************************)
EXTENDS Integers, Sequences, FiniteSets, TLC

\* ------------------------------------------------------------------ bounds

\* Number of distinct raw outputs an executor may produce for a task.
MaxOutput == 2

\* Number of workflow runs one process performs.
MaxRuns == 2

\* ------------------------------------------------------------ small helpers

Range(s) == {s[i] : i \in 1..Len(s)}

Outputs == {<<v>> : v \in 1..MaxOutput}

\* Texts of the exceptions an executor or the crew construction may raise.
ExecutionErrors == {"executor_error", "rate_limit"}

ConstructionErrors == {"config_error"}

\* ------------------------------------------- crew.py: product launch tasks

product_launch_market_analysis ==
    [name    |-> "product_launch_market_analysis",
     agent   |-> "market_intelligence_agent",
     context |-> <<>>]

\* A slip in the context list: segmentation waits for content_strategy, which
\* waits for segmentation.
product_launch_segmentation_cyclic ==
    [name    |-> "product_launch_segmentation",
     agent   |-> "customer_segmentation_agent",
     context |-> <<"product_launch_content_strategy">>]

product_launch_segmentation ==
    [name    |-> "product_launch_segmentation",
     agent   |-> "customer_segmentation_agent",
     context |-> <<product_launch_market_analysis.name>>]

\* A slip in the context list: the two context tasks in the other order.
product_launch_content_strategy_swapped ==
    [name    |-> "product_launch_content_strategy",
     agent   |-> "content_strategy_agent",
     context |-> <<product_launch_segmentation.name,
                   product_launch_market_analysis.name>>]

product_launch_content_strategy ==
    [name    |-> "product_launch_content_strategy",
     agent   |-> "content_strategy_agent",
     context |-> <<product_launch_market_analysis.name,
                   product_launch_segmentation.name>>]

product_launch_compliance_review ==
    [name    |-> "product_launch_compliance_review",
     agent   |-> "compliance_risk_agent",
     context |-> <<product_launch_content_strategy.name>>]

\* A slip in the context list: execution_plan waits for compliance_review
\* only.
product_launch_execution_plan_linear ==
    [name    |-> "product_launch_execution_plan",
     agent   |-> "campaign_execution_agent",
     context |-> <<product_launch_compliance_review.name>>]

product_launch_execution_plan ==
    [name    |-> "product_launch_execution_plan",
     agent   |-> "campaign_execution_agent",
     context |-> <<product_launch_content_strategy.name,
                   product_launch_compliance_review.name>>]

product_launch_performance_monitoring ==
    [name    |-> "product_launch_performance_monitoring",
     agent   |-> "performance_analytics_agent",
     context |-> <<product_launch_execution_plan.name>>]

\* ------------------------------------------------------- crew.py: the crews

\* A slip in the task list: segmentation listed before market_analysis.
product_launch_crew_reordered ==
    [agents  |-> <<"market_intelligence_agent",
                   "customer_segmentation_agent",
                   "content_strategy_agent",
                   "compliance_risk_agent",
                   "campaign_execution_agent",
                   "performance_analytics_agent">>,
     tasks   |-> <<product_launch_segmentation,
                   product_launch_market_analysis,
                   product_launch_content_strategy,
                   product_launch_compliance_review,
                   product_launch_execution_plan,
                   product_launch_performance_monitoring>>,
     process |-> "sequential"]

product_launch_crew ==
    [agents  |-> <<"market_intelligence_agent",
                   "customer_segmentation_agent",
                   "content_strategy_agent",
                   "compliance_risk_agent",
                   "campaign_execution_agent",
                   "performance_analytics_agent">>,
     tasks   |-> <<product_launch_market_analysis,
                   product_launch_segmentation,
                   product_launch_content_strategy,
                   product_launch_compliance_review,
                   product_launch_execution_plan,
                   product_launch_performance_monitoring>>,
     process |-> "sequential"]

\* A slip in the task list: impact_measurement is left out of it.
real_time_response_crew_truncated ==
    LET market_monitoring ==
            [name    |-> "market_monitoring",
             agent   |-> "market_intelligence_agent",
             context |-> <<>>]
        response_strategy ==
            [name    |-> "response_strategy",
             agent   |-> "content_strategy_agent",
             context |-> <<market_monitoring.name>>]
        compliance_check ==
            [name    |-> "compliance_check",
             agent   |-> "compliance_risk_agent",
             context |-> <<response_strategy.name>>]
        campaign_deployment ==
            [name    |-> "campaign_deployment",
             agent   |-> "campaign_execution_agent",
             context |-> <<compliance_check.name>>]
    IN  [agents  |-> <<"market_intelligence_agent",
                       "content_strategy_agent",
                       "compliance_risk_agent",
                       "campaign_execution_agent",
                       "performance_analytics_agent">>,
         tasks   |-> <<market_monitoring,
                       response_strategy,
                       compliance_check,
                       campaign_deployment>>,
         process |-> "sequential"]

real_time_response_crew ==
    LET market_monitoring ==
            [name    |-> "market_monitoring",
             agent   |-> "market_intelligence_agent",
             context |-> <<>>]
        response_strategy ==
            [name    |-> "response_strategy",
             agent   |-> "content_strategy_agent",
             context |-> <<market_monitoring.name>>]
        compliance_check ==
            [name    |-> "compliance_check",
             agent   |-> "compliance_risk_agent",
             context |-> <<response_strategy.name>>]
        campaign_deployment ==
            [name    |-> "campaign_deployment",
             agent   |-> "campaign_execution_agent",
             context |-> <<compliance_check.name>>]
        impact_measurement ==
            [name    |-> "impact_measurement",
             agent   |-> "performance_analytics_agent",
             context |-> <<campaign_deployment.name>>]
    IN  [agents  |-> <<"market_intelligence_agent",
                       "content_strategy_agent",
                       "compliance_risk_agent",
                       "campaign_execution_agent",
                       "performance_analytics_agent">>,
         tasks   |-> <<market_monitoring,
                       response_strategy,
                       compliance_check,
                       campaign_deployment,
                       impact_measurement>>,
         process |-> "sequential"]

\* A slip in the agent list: the agent of the first task is not listed.
personalized_journey_crew_agent_missing ==
    LET micro_segmentation ==
            [name    |-> "micro_segmentation",
             agent   |-> "customer_segmentation_agent",
             context |-> <<>>]
        personalized_content ==
            [name    |-> "personalized_content",
             agent   |-> "content_strategy_agent",
             context |-> <<micro_segmentation.name>>]
        automated_deployment ==
            [name    |-> "automated_deployment",
             agent   |-> "campaign_execution_agent",
             context |-> <<personalized_content.name>>]
        engagement_analysis ==
            [name    |-> "engagement_analysis",
             agent   |-> "performance_analytics_agent",
             context |-> <<automated_deployment.name>>]
    IN  [agents  |-> <<"market_intelligence_agent",
                       "content_strategy_agent",
                       "campaign_execution_agent",
                       "performance_analytics_agent">>,
         tasks   |-> <<micro_segmentation,
                       personalized_content,
                       automated_deployment,
                       engagement_analysis>>,
         process |-> "sequential"]

personalized_journey_crew ==
    LET micro_segmentation ==
            [name    |-> "micro_segmentation",
             agent   |-> "customer_segmentation_agent",
             context |-> <<>>]
        personalized_content ==
            [name    |-> "personalized_content",
             agent   |-> "content_strategy_agent",
             context |-> <<micro_segmentation.name>>]
        automated_deployment ==
            [name    |-> "automated_deployment",
             agent   |-> "campaign_execution_agent",
             context |-> <<personalized_content.name>>]
        engagement_analysis ==
            [name    |-> "engagement_analysis",
             agent   |-> "performance_analytics_agent",
             context |-> <<automated_deployment.name>>]
    IN  [agents  |-> <<"customer_segmentation_agent",
                       "content_strategy_agent",
                       "campaign_execution_agent",
                       "performance_analytics_agent">>,
         tasks   |-> <<micro_segmentation,
                       personalized_content,
                       automated_deployment,
                       engagement_analysis>>,
         process |-> "sequential"]

\* The crew without tasks that stands for "no crew was built".
NoCrew == [agents |-> <<>>, tasks |-> <<>>, process |-> "sequential"]

\* A create_crew whose last branch falls back to the product launch crew.
create_crew_default(workflow) ==
    IF workflow = "real_time_response"
    THEN [raised |-> FALSE, crew |-> real_time_response_crew]
    ELSE IF workflow = "personalized_journey"
    THEN [raised |-> FALSE, crew |-> personalized_journey_crew]
    ELSE [raised |-> FALSE, crew |-> product_launch_crew]

\* create_crew: the crew of the named workflow, or a raised ValueError.
create_crew(workflow) ==
    IF workflow = "product_launch"
    THEN [raised |-> FALSE, crew |-> product_launch_crew]
    ELSE IF workflow = "real_time_response"
    THEN [raised |-> FALSE, crew |-> real_time_response_crew]
    ELSE IF workflow = "personalized_journey"
    THEN [raised |-> FALSE, crew |-> personalized_journey_crew]
    ELSE [raised |-> TRUE, crew |-> NoCrew]

\* The workflow names the three run_*_workflow functions pass to create_crew.
Workflows == {"product_launch", "real_time_response", "personalized_journey"}

\* ------------------------------------------------- inputs of the callers

\* Names a caller of create_crew may pass that are not workflow names.
OtherNames == {"monitor", "PRODUCT_LAUNCH"}

\* Input maps a caller passes to run_<wf>_workflow: a complete one and ones
\* with a missing key or a malformed date.
RunInputs(wf) ==
    IF wf = "product_launch"
    THEN {[product_name |-> "Youth Digital Savings Account",
           launch_date  |-> "2025-03-01"],
          [product_name |-> "Youth Digital Savings Account",
           launch_date  |-> "01/03/2025"],
          [launch_date  |-> "2025-03-01"]}
    ELSE IF wf = "real_time_response"
    THEN {[monitoring_priorities |-> "competitor_rates",
           alert_criteria        |-> "medium"],
          [alert_criteria        |-> "medium"]}
    ELSE {[analysis_date  |-> "2025-03-01",
           focus_segments |-> "high_value"],
          [focus_segments |-> "high_value"]}

\* The input map main builds for --workflow: the product name is the
\* --product option, which main requires to be non-empty, and the dates are
\* today's date formatted with %Y-%m-%d.
MainInputs(wf) ==
    IF wf = "product_launch"
    THEN {[product_name |-> "Youth Digital Savings Account",
           launch_date  |-> "2025-03-01"]}
    ELSE IF wf = "real_time_response"
    THEN {[monitoring_priorities |-> "competitor_rates",
           alert_criteria        |-> "medium"]}
    ELSE {[analysis_date  |-> "2025-03-01",
           focus_segments |-> "high_value"]}

\* The input maps run_interactive_mode builds from what the user types: every
\* key is present, the typed texts are free (also empty or not a date).
InteractiveInputs(wf) ==
    IF wf = "product_launch"
    THEN {[product_name |-> "Youth Digital Savings Account",
           launch_date  |-> "2025-03-01"],
          [product_name |-> "Youth Digital Savings Account",
           launch_date  |-> "01/03/2025"],
          [product_name |-> "",
           launch_date  |-> "2025-03-01"]}
    ELSE IF wf = "real_time_response"
    THEN {[monitoring_priorities |-> "competitor_rates",
           alert_criteria        |-> "medium"]}
    ELSE {[analysis_date  |-> "2025-03-01",
           focus_segments |-> "high_value"]}

\* The input maps a run can get in mode m.
InputsOf(m, wf) ==
    IF m = "cli" THEN MainInputs(wf)
    ELSE IF m = "interactive" THEN InteractiveInputs(wf)
    ELSE RunInputs(wf)

\* The input maps of all modes.
AllInputs(wf) == MainInputs(wf) \cup InteractiveInputs(wf) \cup RunInputs(wf)

\* ------------------------------------------------ validators.py

\* Python's None as a value of an input map: a text no input text equals.
None == "<None>"

\* The texts that stand for a date in the input maps of this module.
DateTexts ==
    {"2025-03-01", "2024-02-29", "2025-12-31", "2025-3-1", "2025-03- 1",
     "01/03/2025", "2025-02-29", "2025-04-31", "2025-13-01", "2025-03-011",
     "20250301", "March 1, 2025", ""}

\* The characters of a text.
Chars(text) ==
    CASE text = "2025-03-01"  -> <<"2","0","2","5","-","0","3","-","0","1">>
      [] text = "2024-02-29"  -> <<"2","0","2","4","-","0","2","-","2","9">>
      [] text = "2025-12-31"  -> <<"2","0","2","5","-","1","2","-","3","1">>
      [] text = "2025-3-1"    -> <<"2","0","2","5","-","3","-","1">>
      [] text = "2025-03- 1"  -> <<"2","0","2","5","-","0","3","-"," ","1">>
      [] text = "01/03/2025"  -> <<"0","1","/","0","3","/","2","0","2","5">>
      [] text = "2025-02-29"  -> <<"2","0","2","5","-","0","2","-","2","9">>
      [] text = "2025-04-31"  -> <<"2","0","2","5","-","0","4","-","3","1">>
      [] text = "2025-13-01"  -> <<"2","0","2","5","-","1","3","-","0","1">>
      [] text = "2025-03-011" -> <<"2","0","2","5","-","0","3","-","0","1","1">>
      [] text = "20250301"    -> <<"2","0","2","5","0","3","0","1">>
      [] text = "March 1, 2025" ->
             <<"M","a","r","c","h"," ","1",","," ","2","0","2","5">>
      [] text = ""            -> <<>>

Digits == <<"0", "1", "2", "3", "4", "5", "6", "7", "8", "9">>

IsDigit(c) == c \in Range(Digits)

RECURSIVE int(_)
\* int(s) of a text of digits, with blanks before them skipped.
int(s) ==
    IF s = <<>> THEN 0
    ELSE IF s[Len(s)] = " " THEN int(SubSeq(s, 1, Len(s) - 1))
    ELSE int(SubSeq(s, 1, Len(s) - 1)) * 10
         + (CHOOSE n \in 0..9 : Digits[n + 1] = s[Len(s)])

\* The directive %Y of strptime: \d\d\d\d.
MatchesY(s) == Len(s) = 4 /\ \A i \in 1..4 : IsDigit(s[i])

\* The directive %m of strptime: 1[0-2]|0[1-9]|[1-9].
MatchesM(s) ==
    \/ Len(s) = 2 /\ s[1] = "1" /\ s[2] \in {"0", "1", "2"}
    \/ Len(s) = 2 /\ s[1] = "0" /\ IsDigit(s[2]) /\ s[2] # "0"
    \/ Len(s) = 1 /\ IsDigit(s[1]) /\ s[1] # "0"

\* The directive %d of strptime: 3[0-1]|[1-2]\d|0[1-9]|[1-9]| [1-9].
MatchesD(s) ==
    \/ Len(s) = 2 /\ s[1] = "3" /\ s[2] \in {"0", "1"}
    \/ Len(s) = 2 /\ s[1] \in {"1", "2"} /\ IsDigit(s[2])
    \/ Len(s) = 2 /\ s[1] \in {"0", " "} /\ IsDigit(s[2]) /\ s[2] # "0"
    \/ Len(s) = 1 /\ IsDigit(s[1]) /\ s[1] # "0"

\* The number of days of a month of the calendar.
DaysInMonth(year, month) ==
    IF month = 2
    THEN (IF (year % 4 = 0 /\ year % 100 # 0) \/ year % 400 = 0
          THEN 29 ELSE 28)
    ELSE IF month \in {4, 6, 9, 11} THEN 30 ELSE 31

\* datetime(year, month, day) exists.
IsDate(year, month, day) ==
    /\ year >= 1
    /\ month \in 1..12
    /\ day \in 1..DaysInMonth(year, month)

\* datetime.strptime(value, "%Y-%m-%d"): "ok" when it returns a datetime,
\* otherwise the exception it raises.  The whole text has to match
\* %Y, "-", %m, "-", %d (one or two characters for month and for day) and
\* the numbers have to be a date; a value that is no text is a TypeError.
strptime(value) ==
    IF value = None
    THEN "TypeError"
    ELSE LET s == Chars(value)
         IN  IF \E ml, dl \in {1, 2} :
                    /\ Len(s) = 6 + ml + dl
                    /\ MatchesY(SubSeq(s, 1, 4))
                    /\ s[5] = "-"
                    /\ MatchesM(SubSeq(s, 6, 5 + ml))
                    /\ s[6 + ml] = "-"
                    /\ MatchesD(SubSeq(s, 7 + ml, 6 + ml + dl))
                    /\ IsDate(int(SubSeq(s, 1, 4)),
                              int(SubSeq(s, 6, 5 + ml)),
                              int(SubSeq(s, 7 + ml, 6 + ml + dl)))
             THEN "ok"
             ELSE "ValueError"

\* validate_workflow_inputs: the pair (is_valid, errors) it returns, or the
\* exception that leaves it (strptime's ValueError is caught, nothing else).
validate_workflow_inputs(wf, in) ==
    LET missing(field) ==
            IF field \notin DOMAIN in \/ in[field] \in {"", None}
            THEN <<IF field = "product_name"
                   THEN "Missing required field: product_name"
                   ELSE "Missing required field: launch_date">>
            ELSE <<>>
        parsed ==
            IF wf = "product_launch" /\ "launch_date" \in DOMAIN in
            THEN strptime(in["launch_date"])
            ELSE "ok"
        errors ==
            IF wf = "product_launch"
            THEN missing("product_name") \o missing("launch_date")
                 \o (IF parsed = "ValueError"
                     THEN <<"Invalid launch_date format. Use YYYY-MM-DD">>
                     ELSE <<>>)
            ELSE IF wf = "real_time_response"
            THEN (IF "monitoring_priorities" \notin DOMAIN in
                  THEN <<"Missing monitoring_priorities">> ELSE <<>>)
            ELSE IF wf = "personalized_journey"
            THEN (IF "analysis_date" \notin DOMAIN in
                  THEN <<"Missing analysis_date">> ELSE <<>>)
            ELSE <<>>
    IN  IF parsed = "TypeError"
        THEN [raised |-> "TypeError"]
        ELSE [raised |-> "none", is_valid |-> Len(errors) = 0,
              errors |-> errors]

\* ------------------------------------------------------------------- state

VARIABLES
    pc,           \* position of the caller: "idle", "kickoff" (inside kickoff,
                  \* between tasks), "executing" (a task is at its executor)
                  \* or "exited" (the process has ended)
    workflow,     \* name of the workflow of the current or last run
    inputs,       \* the input map of the current or last run
    crew,         \* the Crew create_crew returned for this run
    objects,      \* the agent and task instances of that Crew
    heap,         \* instances built in this process and the decorators' caches
    idx,          \* 1-based index in crew.tasks of the next task to start
    status,       \* task name -> "Pending" | "Running" | "Completed" | "Failed"
    output,       \* task name -> raw output, for the tasks that completed
    invocations,  \* the executor invocations of this run, in order
    ret,          \* the map the last run_*_workflow call returned
    runs,         \* number of calls that returned
    prev,         \* the run before the current one, as it ended
    signal,       \* "SIGINT" once a process interrupt was delivered
    mode,         \* how the process runs workflows: "cli" (main with
                  \* --workflow), "interactive" (run_interactive_mode) or
                  \* "library" (code that imports and calls the functions)
    saved,        \* the save_results calls, in order
    exit_code,    \* "running", or how the process ended
    validation    \* what the last validate_workflow_inputs call gave

vars == <<pc, workflow, inputs, crew, objects, heap, idx, status, output,
          invocations, ret, runs, prev, signal, mode, saved, exit_code,
          validation>>

\* The ways a process gets to run a workflow.
Modes == {"cli", "interactive", "library"}

\* "validate_workflow_inputs was not called."
NoValidation == [raised |-> "not called"]

\* "No call has returned yet."
NoReturn == [status |-> "none"]

\* The empty task -> value map.
EmptyMap == [t \in {} |-> <<>>]

\* "No input map."
NoInputs == [k \in {} |-> ""]

\* "No instances": no crew was built.
NoObjects == [self |-> 0, agents |-> <<>>, tasks |-> <<>>]

\* "No earlier run."
NoRun == [workflow |-> "none", order |-> <<>>, ret |-> NoReturn,
          failed |-> "none", ids |-> {}]

TaskNames(c) == {c.tasks[i].name : i \in 1..Len(c.tasks)}

Init ==
    /\ pc = "idle"
    /\ workflow = "none"
    /\ inputs = NoInputs
    /\ crew = NoCrew
    /\ objects = NoObjects
    /\ heap = [memo |-> [k \in {} |-> 0], next |-> 1, obj |-> [i \in {} |-> 0]]
    /\ idx = 1
    /\ status = EmptyMap
    /\ output = EmptyMap
    /\ invocations = <<>>
    /\ ret = NoReturn
    /\ runs = 0
    /\ prev = NoRun
    /\ signal = "none"
    /\ mode \in Modes
    /\ saved = <<>>
    /\ exit_code = "running"
    /\ validation = NoValidation

\* --------------------------------- crew.py: building the instances of a crew

\* The key under which a decorated method caches: a cache shared by all
\* MarketingCrew instances that is keyed on self.
CacheKey_shared(self, method) == <<0, method>>

\* The key under which a decorated method (@agent, @task) caches its result:
\* the arguments of the call, that is self.
CacheKey(self, method) == <<self, method>>

\* A decorator that looks the key up and calls the method all the same:
\* every call builds a new instance.
Cached_never(h, key) == key \in DOMAIN h.memo /\ FALSE

\* The decorated method was already called with this key.
Cached(h, key) == key \in DOMAIN h.memo

\* self.<agent>(): the cached Agent, or a new one that is then cached.
call_agent(self, method, h) ==
    LET key == CacheKey(self, method)
    IN  IF Cached(h, key)
        THEN [h |-> h, id |-> h.memo[key]]
        ELSE [h  |-> [h EXCEPT !.memo = (key :> h.next) @@ h.memo,
                               !.next = h.next + 1],
              id |-> h.next]

RECURSIVE call_agents(_, _, _)
\* agents=[self.<agent>(), ...]: the calls in the order they are written.
call_agents(self, methods, h) ==
    IF methods = <<>>
    THEN [h |-> h, ids |-> <<>>]
    ELSE LET first == call_agent(self, Head(methods), h)
             rest  == call_agents(self, Tail(methods), first.h)
         IN  [h |-> rest.h, ids |-> <<first.id>> \o rest.ids]

\* The body of the @task method called name.
TaskMethod(name) ==
    CHOOSE t \in {product_launch_market_analysis,
                  product_launch_segmentation,
                  product_launch_content_strategy,
                  product_launch_compliance_review,
                  product_launch_execution_plan,
                  product_launch_performance_monitoring} : t.name = name

RECURSIVE call_task(_, _, _), call_tasks(_, _, _)
\* self.<task>(): the cached Task, or a new one built by the method's body,
\* which calls the agent method and the task methods of its context list.
call_task(self, name, h) ==
    LET key == CacheKey(self, name)
    IN  IF Cached(h, key)
        THEN [h |-> h, id |-> h.memo[key]]
        ELSE LET a  == call_agent(self, TaskMethod(name).agent, h)
                 c  == call_tasks(self, TaskMethod(name).context, a.h)
                 id == c.h.next
             IN  [h  |-> [memo |-> (key :> id) @@ c.h.memo,
                          next |-> id + 1,
                          obj  |-> (id :> [name    |-> name,
                                           agent   |-> a.id,
                                           context |-> c.ids]) @@ c.h.obj],
                  id |-> id]

\* [self.<task>(), ...]: the calls in the order they are written.
call_tasks(self, names, h) ==
    IF names = <<>>
    THEN [h |-> h, ids |-> <<>>]
    ELSE LET first == call_task(self, Head(names), h)
             rest  == call_tasks(self, Tail(names), first.h)
         IN  [h |-> rest.h, ids |-> <<first.id>> \o rest.ids]

RECURSIVE build_local_tasks(_, _, _, _)
\* Tasks built as local variables (real_time_response_crew,
\* personalized_journey_crew): one Task(...) per variable, its context list
\* holding the variables assigned before it.
build_local_tasks(self, decls, h, env) ==
    IF decls = <<>>
    THEN [h |-> h, ids |-> <<>>]
    ELSE LET d    == Head(decls)
             a    == call_agent(self, d.agent, h)
             id   == a.h.next
             ctx  == [k \in 1..Len(d.context) |-> env[d.context[k]]]
             h2   == [memo |-> a.h.memo,
                      next |-> id + 1,
                      obj  |-> (id :> [name    |-> d.name,
                                       agent   |-> a.id,
                                       context |-> ctx]) @@ a.h.obj]
             rest == build_local_tasks(self, Tail(decls), h2,
                                       (d.name :> id) @@ env)
         IN  [h |-> rest.h, ids |-> <<id>> \o rest.ids]

\* MarketingCrew(...) followed by the crew method that create_crew selects:
\* product_launch_crew evaluates agents=[...] and then tasks=[...] through
\* the decorated methods, the other two build their tasks first.
build_crew(c, h) ==
    LET self == h.next
        h1   == [h EXCEPT !.next = h.next + 1]
    IN  IF c = product_launch_crew
        THEN LET a == call_agents(self, c.agents, h1)
                 t == call_tasks(self,
                          [i \in 1..Len(c.tasks) |-> c.tasks[i].name], a.h)
             IN  [h |-> t.h,
                  objects |-> [self |-> self, agents |-> a.ids, tasks |-> t.ids]]
        ELSE LET t == build_local_tasks(self, c.tasks, h1, EmptyMap)
                 a == call_agents(self, c.agents, t.h)
             IN  [h |-> a.h,
                  objects |-> [self |-> self, agents |-> a.ids, tasks |-> t.ids]]

\* ------------------------------------------------- the sequential process

RECURSIVE aggregate_raw_outputs(_, _)
\* The context text of a task: the raw outputs of the tasks of its context
\* list that have an output, joined in the order of the list.
aggregate_raw_outputs(context, outs) ==
    IF context = <<>>
    THEN <<>>
    ELSE (IF Head(context) \in DOMAIN outs THEN outs[Head(context)] ELSE <<>>)
         \o aggregate_raw_outputs(Tail(context), outs)

\* The tasks whose outputs the i-th listed task reads: the instances of its
\* context list.  An instance that is not in the crew's task list is never
\* executed and has no output.
ContextTasks(objs, h, i) ==
    LET ctx == h.obj[objs.tasks[i]].context
    IN  [k \in 1..Len(ctx) |->
            IF \E j \in 1..Len(objs.tasks) : objs.tasks[j] = ctx[k]
            THEN h.obj[ctx[k]].name
            ELSE "(instance outside the task list)"]

\* The value kickoff returns: the output of the last task of the list.
kickoff_result(c, outs) == outs[c.tasks[Len(c.tasks)].name]

\* The run that is ending when a new call begins, as the next run sees it.
LastRun ==
    [workflow |-> workflow,
     order    |-> [i \in 1..Len(invocations) |-> invocations[i].task],
     ret      |-> ret,
     failed   |-> IF \E t \in DOMAIN status : status[t] = "Failed"
                  THEN CHOOSE t \in DOMAIN status : status[t] = "Failed"
                  ELSE "none",
     ids      |-> Range(objects.agents) \cup Range(objects.tasks)]

\* ------------------------------------------------ main.py: run_*_workflow

\* The value of datetime.now().isoformat(); the clock is not modelled.
Timestamp == "now"

\* The map run_<wf>_workflow returns after kickoff returned result.
SuccessMap(wf, result) ==
    [status |-> "success", workflow |-> wf, timestamp |-> Timestamp,
     result |-> result]

\* The map the except clause of run_<wf>_workflow returns for exception e.
FailedMap(wf, e) ==
    [status |-> "failed", workflow |-> wf, timestamp |-> Timestamp,
     error |-> e]

\* A main that saves after every run, interactive ones included.
main_saves_always(m) == m # "library"

\* The caller passes the returned map to save_results: main does in its
\* --workflow branches (args.save_results is True whatever the command
\* line), run_interactive_mode drops the map.
main_saves(m) == m = "cli"

\* run_<wf>_workflow returns results and its caller goes on: main calls
\* save_results, which writes the file or raises (then main exits with
\* status 1), and ends; run_interactive_mode ends; a library caller is free
\* to call again.
ReturnResults(results) ==
    /\ ret' = results
    /\ runs' = runs + 1
    /\ IF main_saves(mode)
       THEN \E written \in BOOLEAN :
               /\ saved' = Append(saved, [results |-> results,
                                          written |-> written])
               /\ exit_code' = IF written THEN "0" ELSE "1"
               /\ pc' = "exited"
       ELSE /\ saved' = saved
            /\ exit_code' = IF mode = "library" THEN exit_code ELSE "0"
            /\ pc' = IF mode = "library" THEN "idle" ELSE "exited"

\* kickoff begins on the crew c with every task pending.
BeginKickoff(wf, in, c) ==
    /\ workflow' = wf
    /\ inputs' = in
    /\ crew' = c
    /\ objects' = build_crew(c, heap).objects
    /\ heap' = build_crew(c, heap).h
    /\ idx' = 1
    /\ status' = [t \in TaskNames(c) |-> "Pending"]
    /\ output' = EmptyMap
    /\ invocations' = <<>>
    /\ ret' = NoReturn
    /\ pc' = "kickoff"
    /\ prev' = LastRun
    /\ UNCHANGED <<runs, signal, mode, saved, exit_code, validation>>

\* run_<wf>_workflow is entered: create_crew builds a fresh crew and kickoff
\* begins with every task pending.  limit is the number of calls the process
\* makes.
CallRunWorkflow(wf, in, limit) ==
    /\ pc = "idle"
    /\ runs < limit
    /\ in \in InputsOf(mode, wf)
    /\ ~create_crew(wf).raised
    /\ BeginKickoff(wf, in, create_crew(wf).crew)

\* run_<wf>_workflow is entered and building the crew raises (a configuration
\* file cannot be read, a configuration key is missing): the except clause
\* returns the failed map; no crew exists and nothing was executed.
CrewConstructionRaises(wf, in, e, limit) ==
    /\ pc = "idle"
    /\ runs < limit
    /\ in \in InputsOf(mode, wf)
    /\ workflow' = wf
    /\ inputs' = in
    /\ crew' = NoCrew
    /\ objects' = NoObjects
    /\ idx' = 1
    /\ status' = EmptyMap
    /\ output' = EmptyMap
    /\ invocations' = <<>>
    /\ ReturnResults(FailedMap(wf, e))
    /\ prev' = LastRun
    /\ UNCHANGED <<heap, signal, mode, validation>>

\* A caller of create_crew passes a name of its own.  For a name that is not
\* a workflow name create_crew raises ValueError after it constructed the
\* MarketingCrew; there is no crew to kick off.
CallCreateCrew(name, limit) ==
    /\ pc = "idle"
    /\ runs < limit
    /\ mode = "library"
    /\ IF create_crew(name).raised
       THEN /\ workflow' = name
            /\ inputs' = NoInputs
            /\ crew' = NoCrew
            /\ objects' = NoObjects
            /\ heap' = [heap EXCEPT !.next = heap.next + 1]
            /\ idx' = 1
            /\ status' = EmptyMap
            /\ output' = EmptyMap
            /\ invocations' = <<>>
            /\ ret' = [status |-> "raised", workflow |-> name,
                       error |-> "ValueError"]
            /\ runs' = runs + 1
            /\ pc' = "idle"
            /\ prev' = LastRun
            /\ UNCHANGED <<signal, mode, saved, exit_code, validation>>
       ELSE BeginKickoff(name, NoInputs, create_crew(name).crew)

\* A crew that does not wait for the running task before it starts the next
\* one (a process other than the sequential one).
StartTask_async ==
    \/ /\ pc = "kickoff"
       /\ idx <= Len(crew.tasks)
       /\ status' = [status EXCEPT ![crew.tasks[idx].name] = "Running"]
       /\ invocations' = Append(invocations,
              [task    |-> crew.tasks[idx].name,
               agent   |-> crew.tasks[idx].agent,
               context |-> aggregate_raw_outputs(
                               ContextTasks(objects, heap, idx), output)])
       /\ pc' = "executing"
       /\ UNCHANGED <<workflow, inputs, crew, objects, heap, idx, output, ret,
                      runs, prev, signal, mode, saved, exit_code,
                      validation>>
    \/ /\ pc = "executing"
       /\ idx < Len(crew.tasks)
       /\ status[crew.tasks[idx + 1].name] = "Pending"
       /\ status' = [status EXCEPT ![crew.tasks[idx + 1].name] = "Running"]
       /\ invocations' = Append(invocations,
              [task    |-> crew.tasks[idx + 1].name,
               agent   |-> crew.tasks[idx + 1].agent,
               context |-> aggregate_raw_outputs(
                               ContextTasks(objects, heap, idx + 1), output)])
       /\ UNCHANGED <<pc, workflow, inputs, crew, objects, heap, idx, output,
                      ret, runs, prev, signal, mode, saved, exit_code,
                      validation>>

\* A scheduler that walks the task list from its end.
StartTask_reverse ==
    /\ pc = "kickoff"
    /\ idx <= Len(crew.tasks)
    /\ LET at   == Len(crew.tasks) + 1 - idx
           task == crew.tasks[at]
       IN  /\ status' = [status EXCEPT ![task.name] = "Running"]
           /\ invocations' = Append(invocations,
                  [task    |-> task.name,
                   agent   |-> task.agent,
                   context |-> aggregate_raw_outputs(
                                   ContextTasks(objects, heap, at), output)])
    /\ pc' = "executing"
    /\ UNCHANGED <<workflow, inputs, crew, objects, heap, idx, output, ret,
                   runs, prev, signal, mode, saved, exit_code, validation>>

\* A scheduler whose choice depends on what the process did before: from
\* the second run on it walks the task list from its end.
StartTask_by_history ==
    /\ pc = "kickoff"
    /\ idx <= Len(crew.tasks)
    /\ LET at   == IF runs > 0 THEN Len(crew.tasks) + 1 - idx ELSE idx
           task == crew.tasks[at]
       IN  /\ status' = [status EXCEPT ![task.name] = "Running"]
           /\ invocations' = Append(invocations,
                  [task    |-> task.name,
                   agent   |-> task.agent,
                   context |-> aggregate_raw_outputs(
                                   ContextTasks(objects, heap, at), output)])
    /\ pc' = "executing"
    /\ UNCHANGED <<workflow, inputs, crew, objects, heap, idx, output, ret,
                   runs, prev, signal, mode, saved, exit_code, validation>>

\* kickoff takes the next task of the list and hands it, with the outputs of
\* its context tasks, to its executor (a blocking call).
StartTask ==
    /\ pc = "kickoff"
    /\ idx <= Len(crew.tasks)
    /\ LET task == crew.tasks[idx]
       IN  /\ status' = [status EXCEPT ![task.name] = "Running"]
           /\ invocations' = Append(invocations,
                  [task    |-> task.name,
                   agent   |-> task.agent,
                   context |-> aggregate_raw_outputs(
                                   ContextTasks(objects, heap, idx), output)])
    /\ pc' = "executing"
    /\ UNCHANGED <<workflow, inputs, crew, objects, heap, idx, output, ret,
                   runs, prev, signal, mode, saved, exit_code, validation>>

\* The executor returns an output.  After the last task kickoff returns and
\* run_<wf>_workflow returns the success map.
TaskSucceeds(out) ==
    /\ pc = "executing"
    /\ LET task == crew.tasks[idx]
           outs == [t \in DOMAIN output \cup {task.name} |->
                        IF t = task.name THEN out ELSE output[t]]
       IN  /\ status' = [status EXCEPT ![task.name] = "Completed"]
           /\ output' = outs
           /\ idx' = idx + 1
           /\ IF idx = Len(crew.tasks)
              THEN ReturnResults(
                       SuccessMap(workflow, kickoff_result(crew, outs)))
              ELSE /\ pc' = "kickoff"
                   /\ UNCHANGED <<ret, runs, saved, exit_code>>
    /\ UNCHANGED <<workflow, inputs, crew, objects, heap, invocations, prev,
                   signal, mode, validation>>

\* An except clause that calls kickoff again instead of returning.
TaskRaises_retry(e) ==
    /\ pc = "executing"
    /\ status' = [status EXCEPT ![crew.tasks[idx].name] = "Failed"]
    /\ pc' = "kickoff"
    /\ UNCHANGED <<workflow, inputs, crew, objects, heap, idx, output,
                   invocations, ret, runs, prev, signal, mode, saved,
                   exit_code, validation>>

\* A failure that is swallowed: the loop goes on with the next task.
TaskRaises_continue(e) ==
    /\ pc = "executing"
    /\ status' = [status EXCEPT ![crew.tasks[idx].name] = "Failed"]
    /\ idx' = idx + 1
    /\ IF idx = Len(crew.tasks)
       THEN ReturnResults(FailedMap(workflow, e))
       ELSE /\ pc' = "kickoff"
            /\ UNCHANGED <<ret, runs, saved, exit_code>>
    /\ UNCHANGED <<workflow, inputs, crew, objects, heap, output, invocations,
                   prev, signal, mode, validation>>

\* A run_<wf>_workflow without the except clause: the executor's exception
\* leaves the function and ends the process through main's handler.
TaskRaises_escape(e) ==
    /\ pc = "executing"
    /\ status' = [status EXCEPT ![crew.tasks[idx].name] = "Failed"]
    /\ pc' = "exited"
    /\ exit_code' = "1"
    /\ UNCHANGED <<workflow, inputs, crew, objects, heap, idx, output,
                   invocations, ret, runs, prev, signal, mode, saved,
                   validation>>

\* The executor raises: the exception leaves kickoff and the except clause of
\* run_<wf>_workflow returns the failed map.
TaskRaises(e) ==
    /\ pc = "executing"
    /\ status' = [status EXCEPT ![crew.tasks[idx].name] = "Failed"]
    /\ ReturnResults(FailedMap(workflow, e))
    /\ UNCHANGED <<workflow, inputs, crew, objects, heap, idx, output,
                   invocations, prev, signal, mode, validation>>

\* An except clause of run_<wf>_workflow that catches the interrupt as well
\* (except BaseException) and returns the failed map.
Interrupt_as_failure ==
    /\ pc \in {"kickoff", "executing"}
    /\ signal = "none"
    /\ signal' = "SIGINT"
    /\ ReturnResults(FailedMap(workflow, "KeyboardInterrupt"))
    /\ UNCHANGED <<workflow, inputs, crew, objects, heap, idx, status, output,
                   invocations, prev, mode, validation>>

\* A process interrupt arrives during a run.  KeyboardInterrupt is raised
\* where the process is executing, inside the executor's call when a task is
\* running; it is not an Exception, so the except clause of run_<wf>_workflow
\* does not catch it and no map is returned.  Under main (both modes) the
\* handler of main prints a message and calls sys.exit(1); in a library
\* caller the interrupt goes on to the caller's code.
Interrupt ==
    /\ pc \in {"kickoff", "executing"}
    /\ signal = "none"
    /\ signal' = "SIGINT"
    /\ pc' = "exited"
    /\ exit_code' = IF mode = "library" THEN "KeyboardInterrupt" ELSE "1"
    /\ UNCHANGED <<workflow, inputs, crew, objects, heap, idx, status, output,
                   invocations, ret, runs, prev, mode, saved, validation>>

\* main ends without running a workflow: --report, product_launch without
\* --product, or an interactive choice that is none of the three workflows.
MainEndsWithoutRun ==
    /\ pc = "idle"
    /\ runs = 0
    /\ mode \in {"cli", "interactive"}
    /\ pc' = "exited"
    /\ exit_code' = "0"
    /\ UNCHANGED <<workflow, inputs, crew, objects, heap, idx, status, output,
                   invocations, ret, runs, prev, signal, mode, saved,
                   validation>>

\* One process that performs one call, as main does in both of its modes;
\* executors return any output.
Next ==
    \/ \E wf \in Workflows : \E in \in AllInputs(wf) :
           CallRunWorkflow(wf, in, 1)
    \/ \E wf \in Workflows : \E in \in AllInputs(wf) :
           \E e \in ConstructionErrors :
               CrewConstructionRaises(wf, in, e, 1)
    \/ \E name \in OtherNames : CallCreateCrew(name, 1)
    \/ StartTask
    \/ \E out \in Outputs : TaskSucceeds(out)
    \/ \E e \in ExecutionErrors : TaskRaises(e)
    \/ Interrupt
    \/ MainEndsWithoutRun

Spec == Init /\ [][Next]_vars

\* The output of a deterministic stub executor.
StubOutputs == {<<1>>}

\* One process that performs up to MaxRuns calls one after the other (only
\* a library caller gets past the first), against deterministic stub
\* executors.
NextRerun ==
    \/ \E wf \in Workflows : \E in \in AllInputs(wf) :
           CallRunWorkflow(wf, in, MaxRuns)
    \/ \E wf \in Workflows : \E in \in AllInputs(wf) :
           \E e \in ConstructionErrors :
               CrewConstructionRaises(wf, in, e, MaxRuns)
    \/ \E name \in OtherNames : CallCreateCrew(name, MaxRuns)
    \/ StartTask
    \/ \E out \in StubOutputs : TaskSucceeds(out)
    \/ \E e \in ExecutionErrors : TaskRaises(e)
    \/ Interrupt
    \/ MainEndsWithoutRun

SpecRerun == Init /\ [][NextRerun]_vars

\* ------------------------------------- validate_workflow_inputs on its own

\* The maps with the key or without it.
Optional(key, values) == {NoInputs} \cup {(key :> v) : v \in values}

\* Input maps for the validator: each key absent or present, present with a
\* text, the empty text or None; the launch date with every text of
\* DateTexts.
ValidatorInputs(wf) ==
    IF wf = "product_launch"
    THEN {a @@ b :
            a \in Optional("product_name",
                           {"Youth Digital Savings Account", "", None}),
            b \in Optional("launch_date", DateTexts \cup {None})}
    ELSE IF wf = "real_time_response"
    THEN {a @@ b :
            a \in Optional("monitoring_priorities",
                           {"competitor_rates", "", None}),
            b \in Optional("alert_criteria", {"medium"})}
    ELSE {a @@ b :
            a \in Optional("analysis_date",
                           {"2025-03-01", "01/03/2025", "", None}),
            b \in Optional("focus_segments", {"high_value"})}

\* A caller holds a workflow name and an input map and has not called yet.
InitValidate ==
    /\ pc = "idle"
    /\ workflow \in Workflows
    /\ inputs \in ValidatorInputs(workflow)
    /\ crew = NoCrew
    /\ objects = NoObjects
    /\ heap = [memo |-> [k \in {} |-> 0], next |-> 1, obj |-> [i \in {} |-> 0]]
    /\ idx = 1
    /\ status = EmptyMap
    /\ output = EmptyMap
    /\ invocations = <<>>
    /\ ret = NoReturn
    /\ runs = 0
    /\ prev = NoRun
    /\ signal = "none"
    /\ mode = "library"
    /\ saved = <<>>
    /\ exit_code = "running"
    /\ validation = NoValidation

\* The caller calls validate_workflow_inputs(workflow, inputs).
CallValidateWorkflowInputs ==
    /\ pc = "idle"
    /\ validation = NoValidation
    /\ validation' = validate_workflow_inputs(workflow, inputs)
    /\ UNCHANGED <<pc, workflow, inputs, crew, objects, heap, idx, status,
                   output, invocations, ret, runs, prev, signal, mode, saved,
                   exit_code>>

NextValidate == CallValidateWorkflowInputs

SpecValidate == InitValidate /\ [][NextValidate]_vars

\* ------------------------------------------------ vocabulary of the claims

\* The context list of the task called name in crew c.
ContextOf(c, name) ==
    LET i == CHOOSE j \in 1..Len(c.tasks) : c.tasks[j].name = name
    IN  c.tasks[i].context

\* The names of the tasks invoked so far in this run, in order.
InvokedTasks == [i \in 1..Len(invocations) |-> invocations[i].task]

\* How often the task called name was handed to its executor in this run.
InvocationCount(name) ==
    Cardinality({i \in 1..Len(invocations) : invocations[i].task = name})

\* Position of the task called name in the task list of crew c.
PositionOf(c, name) == CHOOSE j \in 1..Len(c.tasks) : c.tasks[j].name = name

RECURSIVE UpstreamWithin(_, _, _)
\* The tasks reached from the set S by following context lists n times.
UpstreamWithin(c, S, n) ==
    IF n = 0
    THEN S
    ELSE UpstreamWithin(c,
             S \cup UNION {Range(ContextOf(c, s)) : s \in S \cap TaskNames(c)},
             n - 1)

\* Every task the task called name depends on, directly or transitively.
Upstream(c, name) ==
    UpstreamWithin(c, Range(ContextOf(c, name)), Len(c.tasks))

Acyclic(c) == \A t \in TaskNames(c) : t \notin Upstream(c, t)

\* In the task list of c every context task stands before its dependent.
ListedAfterContext(c) ==
    \A i \in 1..Len(c.tasks) :
        \A d \in Range(c.tasks[i].context) :
            \E j \in 1..(i - 1) : c.tasks[j].name = d

\* ------------------------------------------------------------------ claims

\* C1: for each of the three workflows create_crew builds, the context
\* relation is acyclic and the execution order is a topological order of it:
\* every task in the context of a task T was executed before T.
C1_TopologicalOrder ==
    /\ \A wf \in Workflows :
          /\ Acyclic(create_crew(wf).crew)
          /\ ListedAfterContext(create_crew(wf).crew)
    /\ Acyclic(crew)
    /\ \A i \in 1..Len(invocations) :
          \A d \in Range(ContextOf(crew, invocations[i].task)) :
              \E j \in 1..(i - 1) : invocations[j].task = d

\* A successful product launch run: the workflow whose context lists are not
\* a plain chain was executed to its end.
C1_Witness ==
    /\ workflow = "product_launch"
    /\ ret.status = "success"
    /\ Len(invocations) = 6

\* C2: fail-fast, no retry.  When a task's execution fails the run fails at
\* once (the failed map is returned), the failed task is the last invocation
\* of the run and was invoked exactly once, and no task later in the order
\* is invoked; no task is ever invoked twice in a run.
C2_FailFastNoRetry ==
    /\ \A t \in DOMAIN status : InvocationCount(t) <= 1
    /\ \A t \in DOMAIN status :
          status[t] = "Failed" =>
              /\ pc \notin {"kickoff", "executing"}
              /\ ret.status = "failed"
              /\ ret.workflow = workflow
              /\ InvocationCount(t) = 1
              /\ invocations[Len(invocations)].task = t
              /\ \A u \in DOMAIN status :
                    PositionOf(crew, u) > PositionOf(crew, t) =>
                        /\ InvocationCount(u) = 0
                        /\ status[u] = "Pending"

\* The example of the claim: the first task of a chain failed, which left
\* one invocation and every other task untouched.
C2_Witness ==
    /\ crew # NoCrew
    /\ status[crew.tasks[1].name] = "Failed"
    /\ Len(invocations) = 1
    /\ \A i \in 2..Len(crew.tasks) : InvocationCount(crew.tasks[i].name) = 0

\* C5: in a run in which no task fails, every task of the workflow is
\* executed exactly once, and no task starts before every task of its
\* context list has produced a result.
C5_ExactlyOnceAfterDependencies ==
    /\ ret.status = "success" =>
          \A t \in TaskNames(crew) :
              /\ InvocationCount(t) = 1
              /\ status[t] = "Completed"
              /\ t \in DOMAIN output
    /\ \A t \in DOMAIN status :
          status[t] = "Running" =>
              \A d \in Range(ContextOf(crew, t)) :
                  /\ d \in DOMAIN output
                  /\ status[d] = "Completed"

\* A task with two context tasks is at its executor in a run without failure.
C5_Witness ==
    /\ workflow = "product_launch"
    /\ pc = "executing"
    /\ status["product_launch_execution_plan"] = "Running"
    /\ \A t \in DOMAIN status : status[t] # "Failed"

\* The state of a task in the per-task state machine: a pending task all of
\* whose context tasks are completed is Ready.
TaskState(t) ==
    IF /\ status[t] = "Pending"
       /\ \A d \in Range(ContextOf(crew, t)) :
              d \in DOMAIN status /\ status[d] = "Completed"
    THEN "Ready"
    ELSE status[t]

AllowedMove(from, to) ==
    \/ from = to
    \/ from = "Pending" /\ to = "Ready"
    \/ from = "Ready" /\ to = "Running"
    \/ from = "Running" /\ to \in {"Completed", "Failed"}

\* A step that begins a new run; its tasks are new tasks.
RunStarts == pc = "idle"

\* C6: within a run a task only moves Pending -> Ready (all its context tasks
\* Completed), Ready -> Running and Running -> Completed or Failed; Completed
\* and Failed are terminal; once a task is Failed the run is over and no task
\* changes state.
C6_TaskStateMachine ==
    [][~RunStarts =>
          /\ \A t \in DOMAIN status :
                /\ t \in DOMAIN status'
                /\ AllowedMove(TaskState(t), TaskState(t)')
          /\ (\E t \in DOMAIN status : status[t] = "Failed") =>
                 \A t \in DOMAIN status : TaskState(t)' = TaskState(t)]_vars

\* One task failed after an earlier one had completed.
C6_Witness ==
    \E t, u \in DOMAIN status :
        /\ status[t] = "Completed"
        /\ status[u] = "Failed"
        /\ \E v \in DOMAIN status : status[v] = "Pending"

\* C7: at most one task is Running in every reachable state.
C7_AtMostOneRunning ==
    Cardinality({t \in DOMAIN status : status[t] = "Running"}) <= 1

\* A task is running while others are completed and others still pending.
C7_Witness ==
    /\ \E t \in DOMAIN status : status[t] = "Running"
    /\ \E t \in DOMAIN status : status[t] = "Completed"
    /\ \E t \in DOMAIN status : status[t] = "Pending"

\* C8: the context handed to a task's executor is the concatenation, in the
\* order of its context list, of the completed results of exactly the tasks
\* of that list (content_strategy receives market_analysis's result followed
\* by segmentation's, execution_plan receives content_strategy's followed by
\* compliance_review's); a task without context tasks receives an empty
\* context.
C8_ContextIsConcatenation ==
    \A i \in 1..Len(invocations) :
        LET inv  == invocations[i]
            deps == ContextOf(crew, inv.task)
        IN  /\ Len(inv.context) = Len(deps)
            /\ \A k \in 1..Len(deps) :
                  /\ deps[k] \in DOMAIN output
                  /\ status[deps[k]] = "Completed"
                  /\ <<inv.context[k]>> = output[deps[k]]
            /\ deps = <<>> => inv.context = <<>>
            /\ inv.task = "product_launch_market_analysis" =>
                  inv.context = <<>>
            /\ inv.task = "product_launch_content_strategy" =>
                  inv.context = output["product_launch_market_analysis"]
                                \o output["product_launch_segmentation"]
            /\ inv.task = "product_launch_execution_plan" =>
                  inv.context = output["product_launch_content_strategy"]
                                \o output["product_launch_compliance_review"]

\* content_strategy was invoked after its two context tasks produced
\* different results, so that the order of the concatenation shows.
C8_Witness ==
    \E i \in 1..Len(invocations) :
        /\ invocations[i].task = "product_launch_content_strategy"
        /\ output["product_launch_market_analysis"]
               # output["product_launch_segmentation"]
        /\ Len(invocations[i].context) = 2

\* C9: a successful run of product_launch consists of exactly six executor
\* invocations, one after the other, in declared order.
C9_SixInvocationsInOrder ==
    (workflow = "product_launch" /\ ret.status = "success") =>
        InvokedTasks = <<"product_launch_market_analysis",
                         "product_launch_segmentation",
                         "product_launch_content_strategy",
                         "product_launch_compliance_review",
                         "product_launch_execution_plan",
                         "product_launch_performance_monitoring">>

\* A product launch run returned the success map.
C9_Witness ==
    /\ workflow = "product_launch"
    /\ pc = "idle"
    /\ ret.status = "success"
    /\ runs = 1

\* The task whose output is the result of each workflow.
FinalTask(wf) ==
    IF wf = "product_launch" THEN "product_launch_performance_monitoring"
    ELSE IF wf = "real_time_response" THEN "impact_measurement"
    ELSE "engagement_analysis"

\* C10: the result of a successful run is the output of the last task in the
\* execution order (performance_monitoring, impact_measurement,
\* engagement_analysis), and run_*_workflow returns it under the key result.
C10_ResultIsLastOutput ==
    ret.status = "success" =>
        /\ "result" \in DOMAIN ret
        /\ FinalTask(workflow) \in DOMAIN output
        /\ ret.result = output[FinalTask(workflow)]
        /\ invocations[Len(invocations)].task = FinalTask(workflow)

\* A real-time response run succeeded although the last task's output
\* differs from the output of the task before it.
C10_Witness ==
    /\ workflow = "real_time_response"
    /\ ret.status = "success"
    /\ output["impact_measurement"] # output["campaign_deployment"]

\* The names of the tasks of crew c in the order of its task list.
DeclaredOrder(c) == [i \in 1..Len(c.tasks) |-> c.tasks[i].name]

IsPrefix(s, t) == Len(s) <= Len(t) /\ \A i \in 1..Len(s) : s[i] = t[i]

\* C11 as stated: the six tasks of product_launch have strictly linear
\* dependencies, the first task none and every other task exactly one, its
\* immediate predecessor in declared order.
C11_StrictlyLinear ==
    (workflow = "product_launch" /\ crew # NoCrew) =>
        \A i \in 1..Len(crew.tasks) :
            crew.tasks[i].context =
                IF i = 1 THEN <<>> ELSE <<crew.tasks[i - 1].name>>

\* C11 (amended): in product_launch the first task has no dependency and
\* every other task depends on its immediate predecessor and on earlier tasks
\* only; content_strategy and execution_plan depend on two tasks each, the
\* task two places before them first (market_analysis, content_strategy) and
\* then their predecessor; the other three depend on their predecessor alone.
C11_PredecessorAndEarlier ==
    (workflow = "product_launch" /\ crew # NoCrew) =>
        /\ Len(crew.tasks) = 6
        /\ \A i \in 1..Len(crew.tasks) :
              LET ctx == crew.tasks[i].context
              IN  /\ i = 1 => ctx = <<>>
                  /\ i > 1 => ctx[Len(ctx)] = crew.tasks[i - 1].name
                  /\ \A k \in 1..Len(ctx) :
                        \E j \in 1..(i - 1) : crew.tasks[j].name = ctx[k]
                  /\ i \in {3, 5} =>
                        ctx = <<crew.tasks[i - 2].name, crew.tasks[i - 1].name>>
                  /\ i \in {2, 4, 6} => ctx = <<crew.tasks[i - 1].name>>

\* The product launch crew was built and its execution_plan task, one of the
\* two tasks with two dependencies, is at its executor.
C11_Witness ==
    /\ workflow = "product_launch"
    /\ crew # NoCrew
    /\ status["product_launch_execution_plan"] = "Running"

\* C12: for each of the three workflows the execution order equals the order
\* in which the tasks are declared in the crew's task list: at every moment
\* the tasks invoked so far are the first tasks of the list, in list order,
\* and a successful run has invoked the whole list.
C12_DeclarationOrder ==
    crew # NoCrew =>
        /\ crew = create_crew(workflow).crew
        /\ IsPrefix(InvokedTasks, DeclaredOrder(create_crew(workflow).crew))
        /\ ret.status = "success" =>
              InvokedTasks = DeclaredOrder(create_crew(workflow).crew)

\* A real-time response run that invoked all its five tasks.
C12_Witness ==
    /\ workflow = "real_time_response"
    /\ ret.status = "success"
    /\ Len(invocations) = 5

\* C13: re-running the same workflow against deterministic executors yields
\* the same execution order: of two successive runs of one workflow the
\* shorter order (a run that failed) is the beginning of the other, and two
\* successful runs have the same order, whatever inputs they were given.
C13_SameOrderEveryRun ==
    (prev # NoRun /\ crew # NoCrew /\ prev.workflow = workflow) =>
        /\ IsPrefix(InvokedTasks, prev.order) \/ IsPrefix(prev.order, InvokedTasks)
        /\ (prev.ret.status = "success" /\ ret.status = "success") =>
               InvokedTasks = prev.order

\* Two successive successful runs of product_launch.
C13_Witness ==
    /\ prev.workflow = "product_launch"
    /\ workflow = "product_launch"
    /\ prev.ret.status = "success"
    /\ ret.status = "success"
    /\ Len(prev.order) = 6

\* C14: in each of the three workflows every agent assigned to a task of the
\* workflow is a member of the workflow's agent list, by name and as the
\* very Agent instance, and so is the agent of every invocation.
C14_AgentsListed ==
    /\ \A wf \in Workflows :
          \A i \in 1..Len(create_crew(wf).crew.tasks) :
              create_crew(wf).crew.tasks[i].agent
                  \in Range(create_crew(wf).crew.agents)
    /\ crew # NoCrew =>
          /\ \A i \in 1..Len(crew.tasks) :
                /\ crew.tasks[i].agent \in Range(crew.agents)
                /\ heap.obj[objects.tasks[i]].agent \in Range(objects.agents)
          /\ \A i \in 1..Len(invocations) :
                invocations[i].agent \in Range(crew.agents)

\* The first task of personalized_journey is at its executor.
C14_Witness ==
    /\ workflow = "personalized_journey"
    /\ Len(invocations) = 1
    /\ invocations[1].agent = "customer_segmentation_agent"
    /\ Len(objects.agents) = 4

\* C15: caller-supplied inputs are validated before any executor is invoked:
\* a run whose inputs miss a required key or are malformed is reported to
\* the caller as a validation error and no task is executed.
C15_ValidatedBeforeExecution ==
    (workflow \in Workflows /\ inputs # NoInputs
        /\ ~validate_workflow_inputs(workflow, inputs).is_valid) =>
        /\ invocations = <<>>
        /\ \A t \in DOMAIN status : status[t] = "Pending"
        /\ ret.status \notin {"success"}

\* C16: when a task's execution fails, the error surfaced to the caller of
\* the workflow run identifies the failing task as well as the underlying
\* cause: the returned map names the task that failed and carries the
\* executor's error.
C16_ErrorIdentifiesFailingTask ==
    \A t \in DOMAIN status :
        status[t] = "Failed" =>
            /\ ret.status = "failed"
            /\ ret.error \in ExecutionErrors
            /\ \E k \in DOMAIN ret : ret[k] = t

\* C17: when a process interrupt is requested during a run, the task that is
\* Running is not interrupted and runs to completion, and no further task is
\* started after it: once the interrupt was handled, every task that was
\* handed to its executor has completed.
C17_RunningTaskCompletes ==
    signal = "SIGINT" =>
        /\ pc = "exited"
        /\ \A i \in 1..Len(invocations) :
               status[invocations[i].task] = "Completed"

\* The identifiers of the instances of the current crew: the MarketingCrew,
\* its agents, its tasks and the tasks of their context lists.
InstanceIds(objs, h) ==
    {objs.self} \cup Range(objs.agents) \cup Range(objs.tasks)
        \cup UNION {Range(h.obj[objs.tasks[i]].context) :
                        i \in 1..Len(objs.tasks)}

\* C18: tasks, executors and results are constructed fresh for each workflow
\* invocation: a step that begins a run leaves every task Pending, no output,
\* no invocation and no returned map, and every instance of the new crew
\* (the MarketingCrew, agents, tasks, context tasks) is one that did not
\* exist before the step.
C18_FreshPerRun ==
    [][(pc = "idle" /\ pc' = "kickoff") =>
          /\ \A t \in DOMAIN status' : status'[t] = "Pending"
          /\ DOMAIN status' = TaskNames(crew')
          /\ output' = EmptyMap
          /\ invocations' = <<>>
          /\ ret' = NoReturn
          /\ \A id \in InstanceIds(objects', heap') : id >= heap.next
          /\ InstanceIds(objects', heap') \cap prev'.ids = {}]_vars

\* The second run of a process begins, after a first run of the same
\* workflow that executed all six tasks.
C18_Witness ==
    /\ runs = 1
    /\ pc = "kickoff"
    /\ idx = 1
    /\ workflow = "product_launch"
    /\ prev.workflow = "product_launch"
    /\ Len(prev.order) = 6
    /\ prev.ids # {}

\* C19: for each of the names product_launch, real_time_response and
\* personalized_journey create_crew returns the crew of that workflow, with
\* 6, 5 and 4 tasks; for any other name it raises and no task is executed.
C19_WorkflowSelection ==
    /\ create_crew("product_launch") =
           [raised |-> FALSE, crew |-> product_launch_crew]
    /\ create_crew("real_time_response") =
           [raised |-> FALSE, crew |-> real_time_response_crew]
    /\ create_crew("personalized_journey") =
           [raised |-> FALSE, crew |-> personalized_journey_crew]
    /\ Len(product_launch_crew.tasks) = 6
    /\ Len(real_time_response_crew.tasks) = 5
    /\ Len(personalized_journey_crew.tasks) = 4
    /\ \A name \in OtherNames : create_crew(name).raised
    /\ (workflow \in Workflows /\ crew # NoCrew) =>
           /\ crew = create_crew(workflow).crew
           /\ Len(objects.tasks) = Len(crew.tasks)
    /\ workflow \in OtherNames =>
           /\ ret.status = "raised"
           /\ crew = NoCrew
           /\ objects = NoObjects
           /\ invocations = <<>>
           /\ status = EmptyMap
           /\ pc = "idle"

\* create_crew was called with a name that is no workflow name and raised.
C19_Witness ==
    /\ workflow = "PRODUCT_LAUNCH"
    /\ ret.status = "raised"
    /\ ret.error = "ValueError"
    /\ runs = 1

\* C20: in product_launch there is one task instance per declared task name
\* per build: six instances exist, every entry of a task's context list is
\* the very instance listed in the crew's task list under the declared name,
\* and so a dependent task reads the outputs of the executed tasks.
C20_SingleInstancePerName ==
    (workflow = "product_launch" /\ crew # NoCrew) =>
        /\ Cardinality(DOMAIN heap.obj) = Len(crew.tasks)
        /\ \A i \in 1..Len(crew.tasks) :
              /\ heap.obj[objects.tasks[i]].name = crew.tasks[i].name
              /\ Len(heap.obj[objects.tasks[i]].context)
                     = Len(crew.tasks[i].context)
              /\ \A k \in 1..Len(crew.tasks[i].context) :
                     heap.obj[objects.tasks[i]].context[k]
                         = objects.tasks[PositionOf(crew,
                                             crew.tasks[i].context[k])]
              /\ ContextTasks(objects, heap, i) = crew.tasks[i].context
        /\ \A i, j \in 1..Len(objects.tasks) :
              objects.tasks[i] = objects.tasks[j] => i = j

\* execution_plan is at its executor: its two context tasks were executed
\* and their outputs are the ones it reads.
C20_Witness ==
    /\ workflow = "product_launch"
    /\ crew # NoCrew
    /\ status["product_launch_execution_plan"] = "Running"
    /\ ContextTasks(objects, heap, 5)
           = <<"product_launch_content_strategy",
               "product_launch_compliance_review">>
    /\ "product_launch_content_strategy" \in DOMAIN output
    /\ "product_launch_compliance_review" \in DOMAIN output

\* Field is a key of the input map in and its value is a non-empty text.
PresentNonEmpty(in, field) ==
    field \in DOMAIN in /\ in[field] \notin {"", None}

\* The value is a date written YYYY-MM-DD: four digits, "-", two digits, "-",
\* two digits, which are a year, a month and a day of the calendar.
IsYYYYMMDD(value) ==
    /\ value # None
    /\ LET s == Chars(value)
       IN  /\ Len(s) = 10
           /\ \A i \in {1, 2, 3, 4, 6, 7, 9, 10} : IsDigit(s[i])
           /\ s[5] = "-"
           /\ s[8] = "-"
           /\ IsDate(int(SubSeq(s, 1, 4)), int(SubSeq(s, 6, 7)),
                     int(SubSeq(s, 9, 10)))

\* C21: validate_workflow_inputs returns is_valid = true exactly when its
\* error list is empty; for product_launch the result is valid iff
\* product_name and launch_date are both present and non-empty and
\* launch_date is a YYYY-MM-DD date; for real_time_response iff the key
\* monitoring_priorities is present; for personalized_journey iff the key
\* analysis_date is present.
C21_ValidIffWellFormed ==
    validation # NoValidation =>
        /\ validation.raised = "none"
        /\ validation.is_valid <=> (validation.errors = <<>>)
        /\ workflow = "product_launch" =>
              (validation.is_valid <=>
                  /\ PresentNonEmpty(inputs, "product_name")
                  /\ PresentNonEmpty(inputs, "launch_date")
                  /\ IsYYYYMMDD(inputs["launch_date"]))
        /\ workflow = "real_time_response" =>
              (validation.is_valid <=> "monitoring_priorities" \in DOMAIN inputs)
        /\ workflow = "personalized_journey" =>
              (validation.is_valid <=> "analysis_date" \in DOMAIN inputs)

\* A failure of the run: building the crew raised or a task failed.
RunFailed ==
    \/ crew = NoCrew
    \/ \E t \in DOMAIN status : status[t] = "Failed"

\* kickoff returned normally: every task of the crew completed.
KickoffReturned ==
    /\ crew # NoCrew
    /\ \A t \in DOMAIN status : status[t] = "Completed"

\* C22: a run_*_workflow call never lets a failure of crew construction or of
\* task execution escape as an exception: it returns a map with status
\* "success" and a result exactly when kickoff returned normally, and
\* otherwise a map with status "failed", the error text and no result; in
\* both cases the workflow field names the workflow that was run.
C22_AlwaysReturnsAMap ==
    workflow \in Workflows =>
        /\ ret.status \in {"none", "success", "failed"}
        /\ ret.status = "none" =>
               pc \in {"kickoff", "executing"} \/ signal = "SIGINT"
        /\ RunFailed => ret.status = "failed"
        /\ KickoffReturned => ret.status = "success"
        /\ ret.status = "success" =>
               /\ KickoffReturned
               /\ DOMAIN ret = {"status", "workflow", "timestamp", "result"}
               /\ ret.result = kickoff_result(crew, output)
               /\ ret.workflow = workflow
        /\ ret.status = "failed" =>
               /\ RunFailed
               /\ DOMAIN ret = {"status", "workflow", "timestamp", "error"}
               /\ ret.error \in ExecutionErrors \cup ConstructionErrors
               /\ ret.workflow = workflow

\* Building the crew raised and the call returned the failed map of its
\* workflow.
C22_Witness ==
    /\ workflow = "real_time_response"
    /\ crew = NoCrew
    /\ ret = FailedMap("real_time_response", "config_error")
    /\ runs = 1

\* C23: a process interrupt raised while a workflow is executing is not
\* turned into a "failed" result: no map is returned, save_results is not
\* called, and under main the process exits with status 1.
C23_InterruptBypassesHandler ==
    signal = "SIGINT" =>
        /\ ret = NoReturn
        /\ runs = 0
        /\ saved = <<>>
        /\ pc = "exited"
        /\ mode \in {"cli", "interactive"} => exit_code = "1"

\* The command line's run was interrupted while a task was at its executor.
C23_Witness ==
    /\ signal = "SIGINT"
    /\ mode = "cli"
    /\ exit_code = "1"
    /\ \E t \in DOMAIN status : status[t] = "Running"

\* C24: in the --workflow path of main, save_results is called exactly once
\* per workflow run that returned, with the returned map, after the return
\* and never before, for failed runs as well as successful ones (the
\* save-results option is always true); a run from interactive mode never
\* calls save_results.
C24_SavedOncePerRun ==
    /\ main_saves("cli")
    /\ mode = "cli" =>
          /\ Len(saved) = runs
          /\ pc \in {"kickoff", "executing"} => saved = <<>>
          /\ ret = NoReturn => saved = <<>>
          /\ ret.status \in {"success", "failed"} =>
                 /\ Len(saved) = 1
                 /\ saved[1].results = ret
    /\ mode = "interactive" => saved = <<>>

\* The command line's run failed at a task and its failed map was saved.
C24_Witness ==
    /\ mode = "cli"
    /\ \E t \in DOMAIN status : status[t] = "Failed"
    /\ Len(saved) = 1
    /\ saved[1].results.status = "failed"
    /\ saved[1].written

====
